---- MODULE Spec2Model ----
\* A model of utils/translator.py: the rate limiter, the translation cache,
\* the term extractor and the translate / validate pipeline built on them.
\*
\* Texts are sequences of whitespace-separated tokens.  The vocabulary is chosen
\* so that no token is a substring of another one, which makes str.replace on
\* the text the same as replacing whole tokens.  Confidences are in hundredths
\* (0.95 is 95), the rate limiter's backoff is in eighths of a second (1 s is 8)
\* and the clock is in seconds.
EXTENDS Integers, Sequences, FiniteSets, TLC

\* ---------------------------------------------------------------- bounds
MaxCallers == 2
MaxTime == 120
TickStep == 60
LimiterTickStep == 20
\* RateLimiter(requests_per_minute, burst_limit) and TranslationCache(max_size)
\* are instantiated small; the module-level instances use 50, 10 and 1000.
RequestsPerMinute == 3
BurstLimit == 2
CacheMaxSize == 3

\* ---------------------------------------------------------------- constants
Window == 60
MaxRetries == 3
ProtectThreshold == 80
OpenaiConfidence == 95
GoogleConfidence == 85

Min(a, b) == IF a < b THEN a ELSE b
Max(a, b) == IF a > b THEN a ELSE b

\* ---------------------------------------------------------------- tokens
PlaceholderNames ==
  <<"__MEDTERM_0__", "__MEDTERM_1__", "__MEDTERM_2__", "__MEDTERM_3__",
    "__MEDTERM_4__", "__MEDTERM_5__">>
\* f"__MEDTERM_{i}__"
Placeholder(i) == PlaceholderNames[i + 1]
PlaceholderTokens == {PlaceholderNames[i] : i \in DOMAIN PlaceholderNames}

\* The key of MEDICAL_PATTERNS whose pattern matches the token (re.IGNORECASE),
\* "none" when no pattern does.
PatternType(tok) ==
  CASE tok = "5mg" -> "measurements"
    [] tok = "BP:120/80" -> "vital_signs"
    [] tok = "IV" -> "common_abbreviations"
    [] tok = "Hgb:12" -> "lab_values"
    [] tok = "lateral" -> "anatomical_terms"
    [] tok \in {"MRI", "biopsy"} -> "medical_procedures"
    [] OTHER -> "none"

\* The order of the keys of MEDICAL_PATTERNS; the chunks of three patterns are
\* gathered in this order.
PatternOrder ==
  <<"measurements", "vital_signs", "common_abbreviations", "lab_values",
    "anatomical_terms", "medical_procedures", "common_conditions">>

\* str.isupper(): at least one cased character and every cased one upper case.
IsUpper(tok) == tok \in {"BP:120/80", "IV", "MRI"} \cup PlaceholderTokens
\* re.match(r'\d', term): the term STARTS with a digit.
StartsWithDigit(tok) == tok \in {"5mg"}
\* len(term) > 3
LongerThan3(tok) == tok \notin {"5mg", "IV", "MRI"}
\* word[0].isupper()
FirstIsUpper(tok) == tok \in {"BP:120/80", "IV", "MRI", "Patient", "Smith", "Hgb:12"}
\* w.lower()
LowerWord(tok) ==
  CASE tok = "Patient" -> "patient" [] tok = "BP:120/80" -> "bp:120/80"
    [] tok = "IV" -> "iv" [] tok = "MRI" -> "mri" [] tok = "Smith" -> "smith"
    [] tok = "Hgb:12" -> "hgb:12" [] OTHER -> tok
\* one of the MEDICATION_CLASSES patterns matches the token
IsMedication(tok) == tok \in {"aspirin"}

TypeWeight(term_type) ==
  CASE term_type = "measurements" -> 90
    [] term_type = "vital_signs" -> 95
    [] term_type = "lab_values" -> 85
    [] term_type = "medical_procedures" -> 80
    [] term_type = "drug_classes" -> 85
    [] term_type = "diagnostic_tests" -> 90
    [] OTHER -> 70

calculate_term_confidence(term, term_type) ==
  Min(100, TypeWeight(term_type)
           + (IF IsUpper(term) THEN 10 ELSE 0)
           + (IF StartsWithDigit(term) THEN 5 ELSE 0)
           + (IF LongerThan3(term) THEN 5 ELSE 0))

\* ---------------------------------------------------------------- sequences
RECURSIVE Replace(_, _, _)
\* str.replace(old, new) on a token sequence
Replace(text, old, new) ==
  IF text = <<>> THEN <<>>
  ELSE <<(IF Head(text) = old THEN new ELSE Head(text))>> \o Replace(Tail(text), old, new)

RECURSIVE Concat(_)
Concat(seqs) == IF seqs = <<>> THEN <<>> ELSE Head(seqs) \o Concat(Tail(seqs))

RECURSIVE InsertByConfidence(_, _)
\* insertion that keeps equal confidences in their original order
InsertByConfidence(sorted, t) ==
  IF sorted = <<>> THEN <<t>>
  ELSE IF Head(sorted).confidence >= t.confidence
       THEN <<Head(sorted)>> \o InsertByConfidence(Tail(sorted), t)
       ELSE <<t>> \o sorted

RECURSIVE SortByConfidence(_)
\* list.sort(key=confidence, reverse=True): stable, descending
SortByConfidence(terms) ==
  IF terms = <<>> THEN <<>>
  ELSE InsertByConfidence(SortByConfidence(SubSeq(terms, 1, Len(terms) - 1)),
                          terms[Len(terms)])

\* ---------------------------------------------------------------- extractor
\* re.finditer(pattern, text): the matches of one pattern, in text order
RECURSIVE MatchesFrom(_, _, _)
MatchesFrom(text, pattern_type, i) ==
  IF i > Len(text) THEN <<>>
  ELSE (IF PatternType(text[i]) = pattern_type
        THEN <<[term |-> text[i], type |-> pattern_type, position |-> i,
                confidence |-> calculate_term_confidence(text[i], pattern_type)]>>
        ELSE <<>>) \o MatchesFrom(text, pattern_type, i + 1)

validate_medical_terms_parallel(text) ==
  SortByConfidence(
    Concat([k \in DOMAIN PatternOrder |-> MatchesFrom(text, PatternOrder[k], 1)]))


\* extract_medical_terms: the pattern matches (0.9), the medication matches
\* (0.85) and the capitalized words near an indicator word (0.7 + 0.1 for each
\* indicator in the window of two words either side, at most 0.9).
medical_indicators == {"patient", "doctor", "hospital", "clinic", "diagnosis", "treatment"}

RECURSIVE FixedMatchesFrom(_, _, _)
FixedMatchesFrom(text, pattern_type, i) ==
  IF i > Len(text) THEN <<>>
  ELSE (IF PatternType(text[i]) = pattern_type
        THEN <<[term |-> text[i], type |-> pattern_type, position |-> i, confidence |-> 90]>>
        ELSE <<>>) \o FixedMatchesFrom(text, pattern_type, i + 1)

RECURSIVE MedicationMatchesFrom(_, _)
MedicationMatchesFrom(text, i) ==
  IF i > Len(text) THEN <<>>
  ELSE (IF IsMedication(text[i])
        THEN <<[term |-> text[i], type |-> "medication", position |-> i, confidence |-> 85]>>
        ELSE <<>>) \o MedicationMatchesFrom(text, i + 1)

\* words[max(0, i-2):min(len(words), i+3)], lower-cased (i counts from 1 here)
ContextWindow(words, i) ==
  {LowerWord(words[j]) : j \in Max(1, i - 2) .. Min(Len(words), i + 2)}
\* variant: every word counts as standing next to an indicator
ContextScore_Always(words, i) == 10
ContextScore(words, i) == 10 * Cardinality(medical_indicators \cap ContextWindow(words, i))
\* text.index(word)
FirstIndex(text, word) == CHOOSE i \in DOMAIN text :
  text[i] = word /\ \A j \in 1 .. (i - 1) : text[j] # word

RECURSIVE PotentialTermsFrom(_, _)
PotentialTermsFrom(words, i) ==
  IF i > Len(words) THEN <<>>
  ELSE (IF FirstIsUpper(words[i]) /\ LongerThan3(words[i]) /\ ContextScore(words, i) > 0
        THEN <<[term |-> words[i], type |-> "potential_medical_term",
                position |-> FirstIndex(words, words[i]),
                confidence |-> Min(70 + ContextScore(words, i), 90)]>>
        ELSE <<>>) \o PotentialTermsFrom(words, i + 1)

extract_medical_terms(text) ==
  Concat([k \in DOMAIN PatternOrder |-> FixedMatchesFrom(text, PatternOrder[k], 1)])
    \o MedicationMatchesFrom(text, 1)
    \o PotentialTermsFrom(text, 1)

\* What the call through sync_client can do.  No statement of the module binds
\* the name sync_client, so evaluating it raises NameError.
SyncClientOutcomes == {"NameError"}

\* validate_medical_terms, given what the provider call does
validate_medical_terms(text, outcome) ==
  IF extract_medical_terms(text) = <<>>
  THEN [text |-> text, confidence |-> 100, validated |-> TRUE]
  ELSE [error |-> "validation_failed", message |-> outcome, original_text |-> text]

\* ---------------------------------------------------------------- protection
RECURSIVE ProtectFrom(_, _, _, _)
\* for i, term_info in enumerate(medical_terms): terms above the threshold are
\* replaced in the text by f"__MEDTERM_{i}__"; preserved_terms keeps the pairs
\* in insertion order.
ProtectFrom(medical_terms, i, text, preserved_terms) ==
  IF i >= Len(medical_terms) THEN [text |-> text, preserved_terms |-> preserved_terms]
  ELSE LET term_info == medical_terms[i + 1] IN
       IF term_info.confidence > ProtectThreshold
       THEN ProtectFrom(medical_terms, i + 1,
                        Replace(text, term_info.term, Placeholder(i)),
                        Append(preserved_terms, <<Placeholder(i), term_info.term>>))
       ELSE ProtectFrom(medical_terms, i + 1, text, preserved_terms)

ProtectTerms(medical_terms, text) == ProtectFrom(medical_terms, 0, text, <<>>)

RECURSIVE BatchProtectFrom(_, _, _, _)
\* for term_info in medical_terms: the placeholder of a term above the
\* threshold is f"__MEDTERM_{len(preserved_terms)}__"
BatchProtectFrom(medical_terms, k, text, preserved_terms) ==
  IF k > Len(medical_terms) THEN [text |-> text, preserved_terms |-> preserved_terms]
  ELSE LET term_info == medical_terms[k] IN
       IF term_info.confidence > ProtectThreshold
       THEN BatchProtectFrom(medical_terms, k + 1,
              Replace(text, term_info.term, Placeholder(Len(preserved_terms))),
              Append(preserved_terms, <<Placeholder(Len(preserved_terms)), term_info.term>>))
       ELSE BatchProtectFrom(medical_terms, k + 1, text, preserved_terms)

RECURSIVE RestoreTerms(_, _)
\* for placeholder, term in preserved_terms.items(): replace(placeholder, term)
RestoreTerms(preserved_terms, translated_text) ==
  IF preserved_terms = <<>> THEN translated_text
  ELSE RestoreTerms(Tail(preserved_terms),
                    Replace(translated_text, Head(preserved_terms)[1], Head(preserved_terms)[2]))

\* ---------------------------------------------------------------- languages
LangInputs == {"en", "es", "EN-US", "zh", "cmn", "xx"}
\* str.lower()
Lower(lang) == IF lang = "EN-US" THEN "en-us" ELSE lang
\* lang[:2]
First2(lang) == CASE lang = "en-us" -> "en" [] lang = "cmn" -> "cm" [] OTHER -> lang
\* lang.split('-')[0]
BaseCode(lang) == IF lang = "en-us" THEN "en" ELSE lang
\* source_lang.lower()[:2]
NormalizeInTranslate(lang) == First2(Lower(lang))

LanguageCodeKeys ==
  {"zh", "en", "es", "fr", "de", "hi", "ja", "ko", "ru", "ar", "pt", "it", "nl", "pl", "tr"}
\* the code whose variant list holds the (lower-cased) name, "" when none does
VariantOwner(lang) ==
  CASE lang \in LanguageCodeKeys -> lang
    [] lang = "en-us" -> "en"
    [] lang = "cmn" -> "zh"
    [] OTHER -> ""
\* None is ""
normalize_language_code(lang_code) ==
  IF lang_code = "" THEN ""
  ELSE IF BaseCode(Lower(lang_code)) \in LanguageCodeKeys THEN BaseCode(Lower(lang_code))
  ELSE VariantOwner(Lower(lang_code))

\* ---------------------------------------------------------------- cache
\* The OrderedDict is a sequence of entries, least recently used first.
get_key(text, source_lang, target_lang) == <<text, source_lang, target_lang>>

CacheHas(c, key) == \E i \in DOMAIN c : c[i].key = key
CacheIndex(c, key) == CHOOSE i \in DOMAIN c : c[i].key = key
CacheValue(c, key) == c[CacheIndex(c, key)].value
CacheWithout(c, key) == SelectSeq(c, LAMBDA e : e.key # key)

\* TranslationCache.get: the cache after the call (a hit moves the entry last)
CacheAfterGet(c, key) ==
  IF CacheHas(c, key)
  THEN Append(CacheWithout(c, key), [key |-> key, value |-> CacheValue(c, key)])
  ELSE c

\* variant: nothing is removed to make room
CacheAfterSet_NoPop(c, key, value) ==
  IF CacheHas(c, key)
  THEN [i \in DOMAIN c |-> IF c[i].key = key THEN [key |-> key, value |-> value] ELSE c[i]]
  ELSE Append(c, [key |-> key, value |-> value])

\* TranslationCache.set
CacheAfterSet(c, key, value) ==
  LET popped == IF Len(c) >= CacheMaxSize THEN Tail(c) ELSE c IN
  IF CacheHas(popped, key)
  THEN [i \in DOMAIN popped |->
          IF popped[i].key = key THEN [key |-> key, value |-> value] ELSE popped[i]]
  ELSE Append(popped, [key |-> key, value |-> value])

\* ---------------------------------------------------------------- rate limiter
\* variant: the window is taken half as long
RECURSIVE Evict_HalfWindow(_, _)
Evict_HalfWindow(times, t) ==
  IF times # <<>> /\ t - Head(times) > Window \div 2
  THEN Evict_HalfWindow(Tail(times), t) ELSE times

RECURSIVE Evict(_, _)
\* while request_times and now - request_times[0] > 60: popleft()
Evict(times, t) ==
  IF times # <<>> /\ t - Head(times) > Window THEN Evict(Tail(times), t) ELSE times

AdmissionLimit == Min(RequestsPerMinute, BurstLimit)

\* variant: one request too many is let in
HasRoom_OffByOne(times) == Len(times) <= AdmissionLimit

\* the test of can_make_request on the evicted window
HasRoom(times) == Len(times) < AdmissionLimit

\* RateLimiter.can_make_request: the value returned and the deque after the call
can_make_request(times, t) ==
  LET kept == Evict(times, t) IN
  IF HasRoom(kept) THEN [ok |-> TRUE, times |-> Append(kept, t)]
  ELSE [ok |-> FALSE, times |-> kept]

\* RateLimiter.get_wait_time
get_wait_time(times, t) ==
  IF times = <<>> THEN 0 ELSE Max(0, Window - (t - times[1]))

\* RateLimiter.get_metrics: the deque is read as it is, nothing is evicted
get_metrics(times, backoff) ==
  [requests_in_window |-> Len(times),
   backoff_time |-> backoff,
   rate_limit_remaining |-> RequestsPerMinute - Len(times)]

\* variant: a failure leaves the backoff as it was
update_backoff_FailureIgnored(backoff, last, success) ==
  IF success /\ ~last THEN Max(8, backoff \div 2) ELSE backoff

\* variant: every success halves the backoff
update_backoff_HalveOnEverySuccess(backoff, last, success) ==
  IF success THEN Max(8, backoff \div 2) ELSE Min(480, backoff * 2)

\* RateLimiter.update_backoff: the backoff (eighths of a second) after the call
update_backoff(backoff, last, success) ==
  IF success /\ ~last THEN Max(8, backoff \div 2)
  ELSE IF ~success THEN Min(480, backoff * 2)
  ELSE backoff

\* ---------------------------------------------------------------- providers
\* What a provider may answer for a text: it translates the plain words and
\* either keeps ("keep") or loses ("drop") the placeholder tokens.
ResponseModes == {"keep", "drop"}
Tr(tok) == CASE tok = "fever" -> "fiebre" [] tok = "take" -> "tomar" [] OTHER -> tok
ProviderText(mode, text) ==
  LET kept == IF mode = "keep" THEN text
              ELSE SelectSeq(text, LAMBDA tok : tok \notin PlaceholderTokens) IN
  [i \in DOMAIN kept |-> Tr(kept[i])]

OpenaiErrors == {"insufficient_quota", "timeout"}
GoogleErrors == {"google_unreachable"}


\* ---------------------------------------------------------------- state
VARIABLES
  client,         \* the module global set by init_openai: TRUE when a client exists
  cache,          \* translation_cache.cache
  request_times,  \* rate_limiter.request_times
  backoff_time,   \* rate_limiter.backoff_time, in eighths of a second
  last_success,   \* rate_limiter.last_success
  now,            \* time.time()
  call,           \* the translate_text coroutine of each caller
  fn_name,        \* the function applied to fn_input ("" before the call)
  fn_input,       \* its argument
  fn_output,      \* the value it returned
  lim_ret,        \* what the last call of a RateLimiter method returned
  admissions,     \* the times at which can_make_request returned True
  wait_until,     \* the end of the last wait get_wait_time reported on a full window
  use_order,      \* the keys of the cache entries, least recently used first
  cache_ret,      \* what the last call of a TranslationCache method returned
  current_batch,  \* request_batcher.current_batch: the requests (by number) not yet taken
  batch_event,    \* request_batcher.batch_event is set
  timers,         \* the times at which the sleeping _timeout_handler tasks wake
  batch_requests, \* the requests add_request was called with, in call order
  proc            \* the process_batch coroutine

limiterVars == <<request_times, backoff_time, last_success>>
translateVars == <<client, cache, call>>
fnVars == <<fn_name, fn_input, fn_output>>
limObsVars == <<lim_ret, admissions, wait_until>>
cacheObsVars == <<use_order, cache_ret>>
batcherVars == <<current_batch, batch_event, timers, batch_requests, proc>>
auxVars == <<cacheObsVars, batcherVars>>
vars == <<client, cache, request_times, backoff_time, last_success, now, call,
          fn_name, fn_input, fn_output, lim_ret, admissions, wait_until,
          use_order, cache_ret, current_batch, batch_event, timers, batch_requests, proc>>

Callers == 1 .. MaxCallers

\* The requests callers make: (text, source_lang, target_lang)
Requests ==
  { <<<<"fever">>, "en", "es">>,
    <<<<"take", "5mg">>, "en", "es">>,
    <<<<"fever">>, "xx", "es">> }

NoResult == [pending |-> TRUE]
IsPending(r) == "pending" \in DOMAIN r
IsError(r) == "error" \in DOMAIN r
IsSuccess(r) == "translated" \in DOMAIN r

\* A coroutine: its position (pc), the locals of translate_text and
\* openai_translate, and a record of what it exchanged with the providers:
\* the arguments it was called with (arg), the request of every primary call
\* with its outcome (openai_log), the request of the secondary call
\* (google_request, <<>> when none) with its outcome, and the number of
\* update_backoff(False) calls it made (recorded); hit tells that the result
\* came from the cache and started_after names the callers whose call had
\* returned when this one began; admitted_at holds the times at which
\* can_make_request admitted the call and failed_at the time at which it
\* last reported a failure with update_backoff(False); refused counts, up to
\* MaxRetries, the times can_make_request refused a call it has not admitted yet.
IdleCall ==
  [pc |-> "idle", arg |-> <<>>, text |-> <<>>, source_lang |-> "", target_lang |-> "",
   medical_terms |-> <<>>, preserved_terms |-> <<>>, retry_count |-> 0, wake_at |-> 0,
   result |-> NoResult, openai_request |-> <<>>, openai_log |-> <<>>,
   google_request |-> <<>>, google_outcome |-> "", recorded |-> 0, hit |-> FALSE,
   started_after |-> {}, admitted_at |-> <<>>, failed_at |-> <<>>, refused |-> 0]

\* ---------------------------------------------------------------- translate_text
\* the dict returned on success
SuccessResult(rec, translated_text, service, confidence) ==
  [translated |-> RestoreTerms(rec.preserved_terms, translated_text),
   source_lang |-> rec.source_lang, target_lang |-> rec.target_lang,
   confidence |-> confidence, translation_service |-> service,
   medical_terms |-> rec.medical_terms]

\* the dict returned by the outer except
ErrorResult(rec, message, error_type) ==
  [error |-> "translation_failed", message |-> message,
   details |-> [source_lang |-> rec.source_lang, target_lang |-> rec.target_lang,
                error_type |-> error_type]]

\* the key translation_cache.set is called with after the translation
SetKey(rec) == get_key(rec.text, rec.source_lang, rec.target_lang)

\* variant: the fallback is given the text as the caller passed it
GoogleRequest_Unprotected(rec) == <<rec.arg[1], rec.source_lang, rec.target_lang>>

\* the arguments of translator.translate in the fallback
GoogleRequest(rec) == <<rec.text, rec.source_lang, rec.target_lang>>

\* variant: no error is told apart: a quota error is retried like any other
IsQuotaError_Never(reason) == FALSE

\* variant: every error ends the attempts at once
IsQuotaError_Always(reason) == TRUE

\* 'insufficient_quota' in str(e)
IsQuotaError(reason) == reason = "insufficient_quota"

\* restore, build the result, cache it, return it
Complete(c, rec, translated_text, service, confidence) ==
  LET result == SuccessResult(rec, translated_text, service, confidence) IN
  /\ cache' = CacheAfterSet(cache, SetKey(rec), result)
  /\ call' = [call EXCEPT ![c] = [rec EXCEPT !.pc = "done", !.result = result]]

\* variant: the error of the fallback is stored like a result
Fallback_ErrorCached(c, rec) ==
  LET sent == [rec EXCEPT !.google_request = GoogleRequest(rec)] IN
  \/ \E mode \in ResponseModes :
       Complete(c, [sent EXCEPT !.google_outcome = "ok"],
                ProviderText(mode, sent.google_request[1]), "google", GoogleConfidence)
  \/ \E google_error \in GoogleErrors :
       LET result == ErrorResult(sent,
                       <<"Both translation services failed. Last error: ", google_error>>,
                       "ValueError") IN
       /\ call' = [call EXCEPT ![c] =
            [sent EXCEPT !.pc = "done", !.google_outcome = google_error, !.result = result]]
       /\ cache' = CacheAfterSet(cache, SetKey(sent), result)

\* the synchronous Google fallback and what follows it
Fallback(c, rec) ==
  LET sent == [rec EXCEPT !.google_request = GoogleRequest(rec)] IN
  \/ \E mode \in ResponseModes :
       Complete(c, [sent EXCEPT !.google_outcome = "ok"],
                ProviderText(mode, sent.google_request[1]), "google", GoogleConfidence)
  \/ \E google_error \in GoogleErrors :
       /\ call' = [call EXCEPT ![c] =
            [sent EXCEPT !.pc = "done", !.google_outcome = google_error,
               !.result = ErrorResult(sent,
                  <<"Both translation services failed. Last error: ", google_error>>,
                  "ValueError")]]
       /\ UNCHANGED cache

\* One pass through the top of the while loop of openai_translate: admitted, the
\* request goes out and the coroutine awaits the answer; refused, it sleeps
\* get_wait_time() and comes back to the top of the loop.
LoopTop(c, rec) ==
  LET adm == can_make_request(request_times, now) IN
  /\ request_times' = adm.times
  /\ IF adm.ok
     THEN call' = [call EXCEPT ![c] =
            [rec EXCEPT !.pc = "openai", !.admitted_at = Append(@, now),
                        !.openai_request = <<rec.text, rec.source_lang, rec.target_lang>>]]
     ELSE call' = [call EXCEPT ![c] =
            [rec EXCEPT !.pc = "sleep", !.wake_at = now + get_wait_time(adm.times, now),
                        !.refused = IF rec.admitted_at = <<>> THEN Min(@ + 1, MaxRetries)
                                    ELSE @]]

\* translate_text up to its first await.  Callers are interchangeable, so they
\* are numbered in the order in which they start.
TranslateStart(c, req) ==
  /\ call[c].pc = "idle"
  /\ IF c = 1 THEN TRUE ELSE call[c - 1].pc # "idle"
  /\ LET rec == [call[c] EXCEPT !.arg = req, !.text = req[1],
                                !.source_lang = req[2], !.target_lang = req[3],
                                !.started_after = {d \in Callers : call[d].pc = "done"}] IN
     IF ~client
     THEN /\ call' = [call EXCEPT ![c] =
                [rec EXCEPT !.pc = "done",
                   !.result = ErrorResult(rec, <<"OpenAI client not available">>, "ValueError")]]
          /\ UNCHANGED cache
     ELSE LET norm == [rec EXCEPT !.source_lang = NormalizeInTranslate(req[2]),
                                  !.target_lang = NormalizeInTranslate(req[3])]
              key == get_key(norm.text, norm.source_lang, norm.target_lang) IN
          /\ cache' = CacheAfterGet(cache, key)
          /\ IF CacheHas(cache, key)
             THEN call' = [call EXCEPT ![c] =
                     [norm EXCEPT !.pc = "done", !.hit = TRUE, !.result = CacheValue(cache, key)]]
             ELSE call' = [call EXCEPT ![c] = [norm EXCEPT !.pc = "extract"]]
  /\ UNCHANGED <<client, limiterVars, now, fnVars, limObsVars, auxVars>>

\* the gathered pattern tasks are done: protect the terms, enter openai_translate
TermsExtracted(c) ==
  /\ call[c].pc = "extract"
  /\ LET medical_terms == validate_medical_terms_parallel(call[c].text)
         prot == ProtectTerms(medical_terms, call[c].text) IN
     LoopTop(c, [call[c] EXCEPT !.medical_terms = medical_terms,
                                !.preserved_terms = prot.preserved_terms,
                                !.text = prot.text, !.retry_count = 0])
  /\ UNCHANGED <<client, cache, backoff_time, last_success, now, fnVars, limObsVars, auxVars>>

\* asyncio.sleep is over
WakeUp(c) ==
  /\ call[c].pc = "sleep"
  /\ now >= call[c].wake_at
  /\ LoopTop(c, call[c])
  /\ UNCHANGED <<client, cache, backoff_time, last_success, now, fnVars, limObsVars, auxVars>>

\* the completion comes back
OpenaiSucceeds(c, mode) ==
  /\ call[c].pc = "openai"
  /\ backoff_time' = update_backoff(backoff_time, last_success, TRUE)
  /\ last_success' = TRUE
  /\ Complete(c, [call[c] EXCEPT !.openai_log = Append(@, "ok")],
              ProviderText(mode, call[c].openai_request[1]), "openai", OpenaiConfidence)
  /\ UNCHANGED <<client, request_times, now, fnVars, limObsVars, auxVars>>

\* the call raises
OpenaiFails(c, reason) ==
  /\ call[c].pc = "openai"
  /\ backoff_time' = update_backoff(backoff_time, last_success, FALSE)
  /\ last_success' = FALSE
  /\ LET rec == [call[c] EXCEPT !.openai_log = Append(@, reason),
                                !.retry_count = @ + 1, !.recorded = @ + 1,
                                !.failed_at = <<now>>] IN
     IF IsQuotaError(reason) \/ rec.retry_count >= MaxRetries
     THEN Fallback(c, rec)
     ELSE /\ call' = [call EXCEPT ![c] =
                [rec EXCEPT !.pc = "sleep",
                            !.wake_at = now + get_wait_time(request_times, now)]]
          /\ UNCHANGED cache
  /\ UNCHANGED <<client, request_times, now, fnVars, limObsVars, auxVars>>

Tick ==
  /\ now + TickStep <= MaxTime
  /\ now' = now + TickStep
  /\ UNCHANGED <<client, cache, limiterVars, call, fnVars, limObsVars, auxVars>>

\* RateLimiter.__init__ at time 0
LimiterInit ==
  /\ request_times = <<>>
  /\ backoff_time = 8
  /\ last_success = TRUE
  /\ now = 0

NoCall == fn_name = "" /\ fn_input = <<>> /\ fn_output = NoResult
NoLimiterCall == lim_ret = [op |-> "none"] /\ admissions = <<>> /\ wait_until = 0
NoCacheCall == use_order = [first |-> <<>>, every |-> <<>>] /\ cache_ret = [op |-> "none"]

\* The coroutine of process_batch: its position (pc), the batch it took, the
\* index of the request process_translation_batch is at (idx), the results
\* gathered so far and the locals of the request being translated.
IdleProc ==
  [pc |-> "wait", batch |-> <<>>, idx |-> 0, results |-> <<>>, text |-> <<>>,
   medical_terms |-> <<>>, preserved_terms |-> <<>>, retry_count |-> 0, wake_at |-> 0]

\* RequestBatcher.__init__, process_batch not yet past its first wait
BatcherInit ==
  /\ current_batch = <<>>
  /\ batch_event = FALSE
  /\ timers = <<>>
  /\ batch_requests = <<>>
  /\ proc = IdleProc

Init ==
  /\ client \in BOOLEAN
  /\ cache = <<>>
  /\ LimiterInit
  /\ call = [c \in Callers |-> IdleCall]
  /\ NoCall
  /\ NoLimiterCall
  /\ NoCacheCall
  /\ BatcherInit

Next ==
  \/ \E c \in Callers, req \in Requests : TranslateStart(c, req)
  \/ \E c \in Callers : TermsExtracted(c)
  \/ \E c \in Callers : WakeUp(c)
  \/ \E c \in Callers, mode \in ResponseModes : OpenaiSucceeds(c, mode)
  \/ \E c \in Callers, reason \in OpenaiErrors : OpenaiFails(c, reason)
  \/ Tick

Spec == Init /\ [][Next]_vars

\* ---------------------------------------------------------------- language variants
\* The same calls made with one text under several names of the same
\* languages: a code, a regional variant in upper case, an alias of the table.
LangRequests ==
  {<<<<"fever">>, source_lang, "es">> : source_lang \in {"en", "EN-US", "zh", "cmn"}}

LangSpecInit == Init /\ client

LangNext ==
  \/ \E c \in Callers, req \in LangRequests : TranslateStart(c, req)
  \/ \E c \in Callers : TermsExtracted(c)
  \/ \E c \in Callers : WakeUp(c)
  \/ \E c \in Callers, mode \in ResponseModes : OpenaiSucceeds(c, mode)
  \/ \E c \in Callers, reason \in OpenaiErrors : OpenaiFails(c, reason)
  \/ Tick

LangSpec == LangSpecInit /\ [][LangNext]_vars


\* ---------------------------------------------------------------- functions
\* The functions of the module that keep no state, applied to an argument.
MaxTextLen == 3
FnTokens ==
  {"fever", "Patient", "Smith", "5mg", "BP:120/80", "Hgb:12", "IV", "MRI", "biopsy",
   "lateral", "aspirin", "__MEDTERM_0__"}
RECURSIVE TextsUpTo(_)
TextsUpTo(n) ==
  IF n = 0 THEN {<<>>}
  ELSE LET shorter == TextsUpTo(n - 1) IN
       shorter \cup {Append(t, tok) : t \in shorter, tok \in FnTokens}
\* the handlers reject a text that is empty after strip()
FnTexts == TextsUpTo(MaxTextLen) \ {<<>>}

FnInit ==
  /\ fn_name = ""
  /\ fn_input \in FnTexts
  /\ fn_output = NoResult
  /\ client = FALSE
  /\ cache = <<>>
  /\ LimiterInit
  /\ call = [c \in Callers |-> IdleCall]
  /\ NoLimiterCall
  /\ NoCacheCall
  /\ BatcherInit

ValidateMedicalTerms ==
  /\ fn_name = ""
  /\ \E outcome \in SyncClientOutcomes :
       fn_output' = validate_medical_terms(fn_input, outcome)
  /\ fn_name' = "validate_medical_terms"
  /\ UNCHANGED <<fn_input, translateVars, limiterVars, now, limObsVars, auxVars>>

ValidateMedicalTermsParallel ==
  /\ fn_name = ""
  /\ fn_output' = [terms |-> validate_medical_terms_parallel(fn_input)]
  /\ fn_name' = "validate_medical_terms_parallel"
  /\ UNCHANGED <<fn_input, translateVars, limiterVars, now, limObsVars, auxVars>>

ExtractMedicalTerms ==
  /\ fn_name = ""
  /\ fn_output' = [terms |-> extract_medical_terms(fn_input)]
  /\ fn_name' = "extract_medical_terms"
  /\ UNCHANGED <<fn_input, translateVars, limiterVars, now, limObsVars, auxVars>>

\* The protection and the restoration of translate_text (text) and of
\* process_translation_batch (batch_text) around a provider that returns the
\* text it was sent.
ProtectAndRestore ==
  /\ fn_name = ""
  /\ LET medical_terms == validate_medical_terms_parallel(fn_input)
         prot == ProtectTerms(medical_terms, fn_input)
         batch_prot == BatchProtectFrom(medical_terms, 1, fn_input, <<>>) IN
     fn_output' = [text |-> RestoreTerms(prot.preserved_terms, prot.text),
                   batch_text |-> RestoreTerms(batch_prot.preserved_terms, batch_prot.text),
                   sent |-> prot.text]
  /\ fn_name' = "protect_and_restore"
  /\ UNCHANGED <<fn_input, translateVars, limiterVars, now, limObsVars, auxVars>>

FnNext ==
  \/ ValidateMedicalTerms
  \/ ValidateMedicalTermsParallel
  \/ ExtractMedicalTerms
  \/ ProtectAndRestore

FnSpec == FnInit /\ [][FnNext]_vars

\* ---------------------------------------------------------------- abbreviations
\* expand_medical_abbreviation called again and again.  The calls made so far
\* are kept with the values they returned; lru_cache answers a call whose
\* argument was seen before with the value stored for it (its 1000 entries
\* are never all used by the arguments below, so none is dropped).
MaxAbbrCalls == 3

\* the keys of MEDICAL_ABBREVIATIONS
AbbreviationKeys ==
  {"BP", "HR", "RR", "temp", "O2", "IV", "IM", "PO", "bid", "tid", "qid", "prn",
   "stat", "NPO"}

\* MEDICAL_ABBREVIATIONS[key]
MEDICAL_ABBREVIATIONS(key) ==
  CASE key = "BP" -> "Blood Pressure"
    [] key = "HR" -> "Heart Rate"
    [] key = "RR" -> "Respiratory Rate"
    [] key = "temp" -> "Temperature"
    [] key = "O2" -> "Oxygen"
    [] key = "IV" -> "Intravenous"
    [] key = "IM" -> "Intramuscular"
    [] key = "PO" -> "Per Os (by mouth)"
    [] key = "bid" -> "Twice daily"
    [] key = "tid" -> "Three times daily"
    [] key = "qid" -> "Four times daily"
    [] key = "prn" -> "As needed"
    [] key = "stat" -> "Immediately"
    [] key = "NPO" -> "Nothing by mouth"

\* the arguments: the keys, keys in the other case, words that are no key
AbbrInputs == AbbreviationKeys \cup {"bp", "iv", "BID", "Temp", "fever"}

\* str.upper()
Upper(s) ==
  CASE s \in {"bp", "BP"} -> "BP"
    [] s \in {"iv", "IV"} -> "IV"
    [] s \in {"bid", "BID"} -> "BID"
    [] s \in {"temp", "Temp"} -> "TEMP"
    [] s = "tid" -> "TID"
    [] s = "qid" -> "QID"
    [] s = "prn" -> "PRN"
    [] s = "stat" -> "STAT"
    [] s = "fever" -> "FEVER"
    [] OTHER -> s

\* MEDICAL_ABBREVIATIONS.get(abbr.upper(), abbr)
Expansion(abbr) ==
  IF Upper(abbr) \in AbbreviationKeys THEN MEDICAL_ABBREVIATIONS(Upper(abbr)) ELSE abbr

\* the value lru_cache holds for an argument seen before
Memoized(inputs, values, abbr) ==
  values[CHOOSE k \in DOMAIN inputs : inputs[k] = abbr]

\* expand_medical_abbreviation(abbr) through its lru_cache
expand_medical_abbreviation(inputs, values, abbr) ==
  IF \E k \in DOMAIN inputs : inputs[k] = abbr
  THEN Memoized(inputs, values, abbr)
  ELSE Expansion(abbr)

AbbrSpecInit ==
  /\ fn_name = "expand_medical_abbreviation"
  /\ fn_input = <<>>
  /\ fn_output = [values |-> <<>>]
  /\ client = FALSE
  /\ cache = <<>>
  /\ LimiterInit
  /\ call = [c \in Callers |-> IdleCall]
  /\ NoLimiterCall
  /\ NoCacheCall
  /\ BatcherInit

ExpandMedicalAbbreviation(abbr) ==
  /\ Len(fn_input) < MaxAbbrCalls
  /\ fn_input' = Append(fn_input, abbr)
  /\ fn_output' = [values |-> Append(fn_output.values,
                       expand_medical_abbreviation(fn_input, fn_output.values, abbr))]
  /\ UNCHANGED <<fn_name, translateVars, limiterVars, now, limObsVars, auxVars>>

AbbrNext == \E abbr \in AbbrInputs : ExpandMedicalAbbreviation(abbr)

AbbrSpec == AbbrSpecInit /\ [][AbbrNext]_vars

\* ---------------------------------------------------------------- the limiter alone
\* The methods of one RateLimiter called in any order as time passes.  Each
\* method runs under the limiter's lock, so each call is one step.
LimiterSpecInit ==
  /\ LimiterInit
  /\ NoLimiterCall
  /\ NoCall
  /\ client = FALSE
  /\ cache = <<>>
  /\ call = [c \in Callers |-> IdleCall]
  /\ NoCacheCall
  /\ BatcherInit

\* the window is full: the admissions of the last 60 s reach the limit
WindowFull ==
  Cardinality({i \in DOMAIN admissions : now - admissions[i] <= Window}) >= AdmissionLimit

CanMakeRequest ==
  LET r == can_make_request(request_times, now) IN
  /\ request_times' = r.times
  /\ lim_ret' = [op |-> "can_make_request", ok |-> r.ok, at |-> now]
  /\ admissions' = IF r.ok THEN Append(admissions, now) ELSE admissions
  /\ UNCHANGED <<backoff_time, last_success, now, wait_until, translateVars, fnVars, auxVars>>

GetWaitTime ==
  LET w == get_wait_time(request_times, now) IN
  /\ lim_ret' = [op |-> "get_wait_time", wait |-> w, at |-> now]
  /\ wait_until' = IF WindowFull THEN now + w ELSE wait_until
  /\ UNCHANGED <<limiterVars, now, admissions, translateVars, fnVars, auxVars>>

UpdateBackoff(success) ==
  /\ backoff_time' = update_backoff(backoff_time, last_success, success)
  /\ last_success' = success
  /\ lim_ret' = [op |-> "update_backoff"]
  /\ UNCHANGED <<request_times, now, admissions, wait_until, translateVars, fnVars, auxVars>>

GetMetrics ==
  /\ lim_ret' = [op |-> "get_metrics", metrics |-> get_metrics(request_times, backoff_time),
                 at |-> now]
  /\ UNCHANGED <<limiterVars, now, admissions, wait_until, translateVars, fnVars, auxVars>>

LimiterTick ==
  /\ now + LimiterTickStep <= MaxTime
  /\ now' = now + LimiterTickStep
  /\ UNCHANGED <<limiterVars, limObsVars, translateVars, fnVars, auxVars>>

LimiterNext ==
  \/ CanMakeRequest
  \/ GetWaitTime
  \/ \E success \in BOOLEAN : UpdateBackoff(success)
  \/ GetMetrics
  \/ LimiterTick

LimiterSpec == LimiterSpecInit /\ [][LimiterNext]_vars

\* ---------------------------------------------------------------- the cache alone
\* The methods of one TranslationCache called in any order.  Each method runs
\* under the cache's lock, so each call is one step.  use_order keeps, for the
\* keys present, the order of their last use, counted in two ways: .every
\* takes every set and every get that hits as a use of the key, .first takes a
\* set that overwrites a present key as no use.
CacheKeys == {get_key(<<"fever">>, source_lang, "es") :
                source_lang \in {"en", "fr", "de", "it", "pt"}}
CacheValues == {[translated |-> <<"fiebre">>], [translated |-> <<"calentura">>]}

CacheKeySet(c) == {c[i].key : i \in DOMAIN c}
Present(order, c) == SelectSeq(order, LAMBDA k : k \in CacheKeySet(c))
MoveLast(order, key) == Append(SelectSeq(order, LAMBDA k : k # key), key)

CacheSpecInit ==
  /\ cache = <<>>
  /\ NoCacheCall
  /\ client = FALSE
  /\ call = [c \in Callers |-> IdleCall]
  /\ LimiterInit
  /\ NoLimiterCall
  /\ NoCall
  /\ BatcherInit

CacheGet(key) ==
  /\ cache' = CacheAfterGet(cache, key)
  /\ cache_ret' = [op |-> "get",
                   value |-> IF CacheHas(cache, key) THEN <<CacheValue(cache, key)>> ELSE <<>>]
  /\ use_order' = IF CacheHas(cache, key)
                  THEN [first |-> MoveLast(use_order.first, key),
                        every |-> MoveLast(use_order.every, key)]
                  ELSE use_order
  /\ UNCHANGED <<client, call, limiterVars, now, fnVars, limObsVars, batcherVars>>

CacheSet(key, value) ==
  /\ cache' = CacheAfterSet(cache, key, value)
  /\ cache_ret' = [op |-> "set"]
  /\ use_order' =
       [first |-> Present(IF CacheHas(cache, key) THEN use_order.first
                          ELSE Append(use_order.first, key), cache'),
        every |-> Present(MoveLast(use_order.every, key), cache')]
  /\ UNCHANGED <<client, call, limiterVars, now, fnVars, limObsVars, batcherVars>>

CacheNext ==
  \/ \E key \in CacheKeys : CacheGet(key)
  \/ \E key \in CacheKeys, value \in CacheValues : CacheSet(key, value)

CacheSpec == CacheSpecInit /\ [][CacheNext]_vars

\* ---------------------------------------------------------------- the batcher
\* One RequestBatcher(batch_size, batch_timeout) with process_batch running
\* process_translation_batch.  The coroutines run on one event loop, so a step
\* is the code between two suspensions; the clock is in seconds and the
\* batcher is instantiated with a timeout of whole seconds.
BatchSize == 2
BatchTimeout == 1
MaxBatchRequests == 3
BatcherMaxTime == 1

BatchTexts == {<<"fever">>, <<"take", "5mg">>}

\* A request add_request was called with: the dict the caller built, the time
\* it joined the batch, its future (result: pending until set_result, resolved
\* counts the set_result calls) and the result process_translation_batch
\* computed for it (computed).  add_request polls the future and returns its
\* result once it is done (returned).
NewRequest(text) ==
  [text |-> text, source_lang |-> "en", target_lang |-> "es", joined_at |-> now,
   result |-> NoResult, resolved |-> 0, computed |-> NoResult, returned |-> FALSE]

\* the dict appended for a translated request
BatchSuccessResult(p, req, translated_text) ==
  [text |-> RestoreTerms(p.preserved_terms, translated_text),
   source_lang |-> req.source_lang, target_lang |-> req.target_lang,
   confidence |-> OpenaiConfidence, service |-> "openai",
   medical_terms |-> p.medical_terms]

\* {'error': str(e)}: openai_translate raises ValueError("OpenAI quota
\* exceeded") for a quota error and the provider's exception otherwise
BatchErrorResult(reason) ==
  [error |-> IF IsQuotaError(reason) THEN "OpenAI quota exceeded" ELSE reason]

\* variant: a request that failed leaves no entry in the results
AppendError_Dropped(results, reason) == results

\* except Exception as e: results.append({'error': str(e)})
AppendError(results, reason) == Append(results, BatchErrorResult(reason))

\* for req, result in zip(batch, results): req['result'].set_result(result)
Deliver(reqs, batch, results) ==
  [id \in DOMAIN reqs |->
     IF \E k \in 1 .. Min(Len(batch), Len(results)) : batch[k] = id
     THEN LET k == CHOOSE k \in 1 .. Min(Len(batch), Len(results)) : batch[k] = id IN
          [reqs[id] EXCEPT !.result = results[k], !.resolved = @ + 1]
     ELSE reqs[id]]

RECURSIVE Advance(_, _, _)
\* process_translation_batch from request idx on, up to its next suspension:
\* requests found in the cache are answered from it; at the first one that is
\* not, the coroutine awaits the extraction of its terms; past the last one the
\* results are returned, every future is resolved and process_batch waits again.
Advance(p, c, reqs) ==
  IF p.idx > Len(p.batch)
  THEN [proc |-> IdleProc, cache |-> c, reqs |-> Deliver(reqs, p.batch, p.results)]
  ELSE LET id == p.batch[p.idx]
           key == get_key(reqs[id].text, reqs[id].source_lang, reqs[id].target_lang) IN
       IF CacheHas(c, key)
       THEN Advance([p EXCEPT !.results = Append(@, CacheValue(c, key)), !.idx = @ + 1],
                    CacheAfterGet(c, key),
                    [reqs EXCEPT ![id].computed = CacheValue(c, key)])
       ELSE [proc |-> [p EXCEPT !.pc = "extract", !.text = reqs[id].text,
                                !.medical_terms = <<>>, !.preserved_terms = <<>>,
                                !.retry_count = 0, !.wake_at = 0],
             cache |-> c, reqs |-> reqs]

\* the state after the step that leaves the coroutine as Advance tells
Advanced(p, c, reqs) ==
  LET a == Advance(p, c, reqs) IN
  /\ proc' = a.proc
  /\ cache' = a.cache
  /\ batch_requests' = a.reqs

BatcherSpecInit ==
  /\ BatcherInit
  /\ cache = <<>>
  /\ NoCacheCall
  /\ client = TRUE
  /\ call = [c \in Callers |-> IdleCall]
  /\ LimiterInit
  /\ NoLimiterCall
  /\ NoCall

\* add_request up to its polling loop; requests arrive up to BatcherMaxTime
AddRequest(text) ==
  /\ Len(batch_requests) < MaxBatchRequests
  /\ now <= BatcherMaxTime
  /\ batch_requests' = Append(batch_requests, NewRequest(text))
  /\ current_batch' = Append(current_batch, Len(batch_requests) + 1)
  /\ batch_event' = (batch_event \/ Len(current_batch') >= BatchSize)
  /\ timers' = IF Len(current_batch') = 1 THEN Append(timers, now + BatchTimeout)
               ELSE timers
  /\ UNCHANGED <<proc, client, cache, call, limiterVars, now, fnVars, limObsVars,
                 cacheObsVars>>

\* variant: the timer ends without setting the event
TimeoutHandler_Silent ==
  /\ timers # <<>>
  /\ now >= Head(timers)
  /\ timers' = Tail(timers)
  /\ UNCHANGED <<batch_event, current_batch, batch_requests, proc, client, cache, call,
                 limiterVars, now, fnVars, limObsVars, cacheObsVars>>

\* _timeout_handler after its sleep
TimeoutHandler ==
  /\ timers # <<>>
  /\ now >= Head(timers)
  /\ batch_event' = TRUE
  /\ timers' = Tail(timers)
  /\ UNCHANGED <<current_batch, batch_requests, proc, client, cache, call,
                 limiterVars, now, fnVars, limObsVars, cacheObsVars>>

\* variant: the batch is handed over without a new list being opened
ProcessBatchTake_NoSwap ==
  /\ proc.pc = "wait"
  /\ batch_event
  /\ current_batch # <<>>
  /\ current_batch' = current_batch
  /\ batch_event' = FALSE
  /\ Advanced([IdleProc EXCEPT !.batch = current_batch, !.idx = 1], cache, batch_requests)
  /\ UNCHANGED <<timers, client, call, limiterVars, now, fnVars, limObsVars,
                 cacheObsVars>>

\* process_batch resumes from batch_event.wait(), takes the batch and, when it
\* is not empty, enters process_translation_batch
ProcessBatchTake ==
  /\ proc.pc = "wait"
  /\ batch_event
  /\ current_batch' = <<>>
  /\ batch_event' = FALSE
  /\ IF current_batch = <<>>
     THEN UNCHANGED <<proc, cache, batch_requests>>
     ELSE Advanced([IdleProc EXCEPT !.batch = current_batch, !.idx = 1],
                   cache, batch_requests)
  /\ UNCHANGED <<timers, client, call, limiterVars, now, fnVars, limObsVars,
                 cacheObsVars>>

\* the top of the while loop of openai_translate, called for a batch request
BatchLoopTop(p) ==
  LET adm == can_make_request(request_times, now) IN
  /\ request_times' = adm.times
  /\ proc' = IF adm.ok THEN [p EXCEPT !.pc = "openai"]
             ELSE [p EXCEPT !.pc = "sleep",
                            !.wake_at = now + get_wait_time(adm.times, now)]

\* the terms of the request are extracted: protect them, enter openai_translate
BatchTermsExtracted ==
  /\ proc.pc = "extract"
  /\ LET medical_terms == validate_medical_terms_parallel(proc.text)
         prot == BatchProtectFrom(medical_terms, 1, proc.text, <<>>) IN
     BatchLoopTop([proc EXCEPT !.medical_terms = medical_terms,
                               !.preserved_terms = prot.preserved_terms,
                               !.text = prot.text])
  /\ UNCHANGED <<current_batch, batch_event, timers, batch_requests, client, cache,
                 call, backoff_time, last_success, now, fnVars, limObsVars, cacheObsVars>>

BatchWakeUp ==
  /\ proc.pc = "sleep"
  /\ now >= proc.wake_at
  /\ BatchLoopTop(proc)
  /\ UNCHANGED <<current_batch, batch_event, timers, batch_requests, client, cache,
                 call, backoff_time, last_success, now, fnVars, limObsVars, cacheObsVars>>

\* the primary answers: restore the terms, cache the result, go on
BatchOpenaiSucceeds(mode) ==
  /\ proc.pc = "openai"
  /\ backoff_time' = update_backoff(backoff_time, last_success, TRUE)
  /\ last_success' = TRUE
  /\ LET id == proc.batch[proc.idx]
         req == batch_requests[id]
         result == BatchSuccessResult(proc, req, ProviderText(mode, proc.text)) IN
     Advanced([proc EXCEPT !.results = Append(@, result), !.idx = @ + 1],
              CacheAfterSet(cache, get_key(proc.text, req.source_lang, req.target_lang),
                            result),
              [batch_requests EXCEPT ![id].computed = result])
  /\ UNCHANGED <<current_batch, batch_event, timers, client, call, request_times, now,
                 fnVars, limObsVars, cacheObsVars>>

\* the primary call raises: retry after a sleep, or give the request its error
BatchOpenaiFails(reason) ==
  /\ proc.pc = "openai"
  /\ backoff_time' = update_backoff(backoff_time, last_success, FALSE)
  /\ last_success' = FALSE
  /\ LET p == [proc EXCEPT !.retry_count = @ + 1]
         id == proc.batch[proc.idx] IN
     IF IsQuotaError(reason) \/ p.retry_count >= MaxRetries
     THEN Advanced([p EXCEPT !.results = AppendError(@, reason), !.idx = @ + 1],
                   cache, [batch_requests EXCEPT ![id].computed = BatchErrorResult(reason)])
     ELSE /\ proc' = [p EXCEPT !.pc = "sleep",
                               !.wake_at = now + get_wait_time(request_times, now)]
          /\ UNCHANGED <<cache, batch_requests>>
  /\ UNCHANGED <<current_batch, batch_event, timers, client, call, request_times, now,
                 fnVars, limObsVars, cacheObsVars>>

\* Time passes: by a second, or, while openai_translate sleeps, up to the
\* end of its sleep and then a second past it.
BatcherTickChoices ==
  (IF now + 1 <= BatcherMaxTime THEN {1} ELSE {})
    \cup (IF proc.pc = "sleep" /\ proc.wake_at > now /\ proc.wake_at <= MaxTime
          THEN {proc.wake_at - now} ELSE {})
    \cup (IF proc.pc = "sleep" /\ proc.wake_at = now /\ now + 1 <= MaxTime
          THEN {1} ELSE {})

BatcherTick ==
  /\ \E d \in BatcherTickChoices : now' = now + d
  /\ UNCHANGED <<batcherVars, client, cache, call, limiterVars, fnVars, limObsVars,
                 cacheObsVars>>

BatcherNext ==
  \/ \E text \in BatchTexts : AddRequest(text)
  \/ TimeoutHandler
  \/ ProcessBatchTake
  \/ BatchTermsExtracted
  \/ BatchWakeUp
  \/ \E mode \in ResponseModes : BatchOpenaiSucceeds(mode)
  \/ \E reason \in OpenaiErrors : BatchOpenaiFails(reason)
  \/ BatcherTick

BatcherSpec == BatcherSpecInit /\ [][BatcherNext]_vars

\* ---------------------------------------------------------------- the batcher, to the end
\* The same batcher with the callers' polling loops and with the clock running
\* on for as long as something waits for it: requests arrive up to
\* BatcherMaxTime, every timer and every sleep comes to its end.

\* the polling loop of add_request finds the future done and returns its result
AddRequestReturns(id) ==
  /\ id \in DOMAIN batch_requests
  /\ ~IsPending(batch_requests[id].result)
  /\ ~batch_requests[id].returned
  /\ batch_requests' = [batch_requests EXCEPT ![id].returned = TRUE]
  /\ UNCHANGED <<current_batch, batch_event, timers, proc, client, cache, call,
                 limiterVars, now, fnVars, limObsVars, cacheObsVars>>

\* Time passes: by a second while requests may arrive, to the end of the next
\* timer, to the end of the sleep of openai_translate, or a second past it.
BatcherLiveTickChoices ==
  (IF now + 1 <= BatcherMaxTime THEN {1} ELSE {})
    \cup {timers[k] - now : k \in {j \in DOMAIN timers : timers[j] > now}}
    \cup (IF proc.pc = "sleep" /\ proc.wake_at > now THEN {proc.wake_at - now} ELSE {})
    \cup (IF proc.pc = "sleep" /\ proc.wake_at = now THEN {1} ELSE {})

BatcherLiveTick ==
  /\ \E d \in BatcherLiveTickChoices : now' = now + d
  /\ UNCHANGED <<batcherVars, client, cache, call, limiterVars, fnVars, limObsVars,
                 cacheObsVars>>

\* the primary provider answers the request of the batch in one way or another
BatchOpenaiAnswers ==
  \/ \E mode \in ResponseModes : BatchOpenaiSucceeds(mode)
  \/ \E reason \in OpenaiErrors : BatchOpenaiFails(reason)

\* the texts of the requests: which words a text holds changes nothing to the
\* way its batch is taken and answered
BatcherLiveTexts == {<<"fever">>}

BatcherLiveNext ==
  \/ \E text \in BatcherLiveTexts : AddRequest(text)
  \/ \E id \in 1 .. MaxBatchRequests : AddRequestReturns(id)
  \/ TimeoutHandler
  \/ ProcessBatchTake
  \/ BatchTermsExtracted
  \/ BatchWakeUp
  \/ BatchOpenaiAnswers
  \/ BatcherLiveTick

\* The event loop does not stop while a task is ready, a provider call is
\* pending or a timer or a sleep is running: some step is taken as long as
\* one can be.  No step is given precedence over another.
BatcherFairness == WF_vars(BatcherLiveNext)

BatcherLiveSpec == BatcherSpecInit /\ [][BatcherLiveNext]_vars /\ BatcherFairness

\* ================================================================ claims
Done(c) == call[c].pc = "done"
Succeeded(c) == Done(c) /\ IsSuccess(call[c].result)
Last(seq) == seq[Len(seq)]
\* the provider calls a Translate made
PrimaryCalls(c) ==
  Len(call[c].openai_log) + (IF call[c].pc = "openai" THEN 1 ELSE 0)
SecondaryCalls(c) == IF call[c].google_request = <<>> THEN 0 ELSE 1
UpstreamCalls(c) == PrimaryCalls(c) + SecondaryCalls(c)
\* the primary attempts of the call ended in an exception
PrimaryFailed(c) ==
  Done(c) /\ call[c].openai_log # <<>> /\ Last(call[c].openai_log) # "ok"
Contains(text, tok) == \E i \in DOMAIN text : text[i] = tok

\* C1: every successful Translate result holds the surface form of every term
\* of confidence > 0.8, whatever the providers answered.
C1_ProtectedTermsVerbatim ==
  \A c \in Callers :
    Succeeded(c) =>
      \A i \in DOMAIN call[c].result.medical_terms :
        call[c].result.medical_terms[i].confidence > ProtectThreshold =>
          Contains(call[c].result.translated, call[c].result.medical_terms[i].term)

\* C2: of two sequential successful Translate calls with the same request the
\* second makes no upstream provider call (the one call is the first's) and
\* returns a value equal to the first.
C2_CacheIdempotence ==
  \A a, b \in Callers :
    (a # b /\ Succeeded(a) /\ Succeeded(b) /\ call[a].arg = call[b].arg
       /\ call[b].started_after = Callers \ {b}) =>
      /\ UpstreamCalls(b) = 0
      /\ call[b].result = call[a].result

\* C3: of identical Translate calls that all start before any call completes,
\* only one goes upstream, and all return equal results.
C3_ConcurrentCoalesced ==
  \A a, b \in Callers :
    (a # b /\ Succeeded(a) /\ Succeeded(b) /\ call[a].arg = call[b].arg
       /\ call[a].started_after = {} /\ call[b].started_after = {}) =>
      /\ UpstreamCalls(a) = 0 \/ UpstreamCalls(b) = 0
      /\ call[b].result = call[a].result

\* C4: when the primary attempts end in a provider error the request sent to
\* the primary (the placeholder-substituted text and the language codes) is
\* the one sent to the secondary, and when the secondary answers the call
\* returns a successful result whose service is the secondary.
C4_FallbackToSecondary ==
  \A c \in Callers :
    PrimaryFailed(c) =>
      /\ call[c].google_request = call[c].openai_request
      /\ call[c].google_outcome = "ok" =>
           (IsSuccess(call[c].result) /\ call[c].result.translation_service = "google")

C4_Witness ==
  \E c \in Callers :
    /\ PrimaryFailed(c)
    /\ call[c].preserved_terms # <<>>
    /\ call[c].google_outcome = "ok"
    /\ call[c].google_request[1] # call[c].arg[1]
    /\ call[c].result.translation_service = "google"

\* C5: a quota error of the primary is not retried: the step that receives it
\* ends the call (one primary call when it is the first answer), records the
\* failure once on the limiter (one doubling of the backoff, capped at 60 s),
\* and goes to the secondary, whose answer is the result.
C5_QuotaStep(c) ==
  /\ call[c].pc = "openai"
  /\ call'[c].openai_log = Append(call[c].openai_log, "insufficient_quota")

C6_FallbackNote ==
  \A c \in Callers :
    (Succeeded(c) /\ ~call[c].hit) =>
      ((call[c].result.translation_service = "google")
         <=> ("service_switch" \in DOMAIN call[c].result))

\* C7: Translate returns the both-providers-failed error exactly when the
\* primary and the secondary call both failed, and that error carries the
\* reason of the primary and the reason of the secondary.
IsExhausted(r) ==
  IsError(r) /\ r.message[1] = "Both translation services failed. Last error: "

C7_ProvidersExhausted ==
  \A c \in Callers :
    Done(c) =>
      /\ IsExhausted(call[c].result)
           <=> (PrimaryFailed(c) /\ call[c].google_outcome \in GoogleErrors)
      /\ IsExhausted(call[c].result) =>
           /\ Contains(call[c].result.message, call[c].google_outcome)
           /\ Contains(call[c].result.message, Last(call[c].openai_log))

\* C8: a Translate whose source or target code does not normalize against the
\* supported-language table calls no provider and ends in an error.
C8_InvalidLanguageRejected ==
  \A c \in Callers :
    (call[c].pc # "idle"
       /\ (normalize_language_code(call[c].arg[2]) = ""
             \/ normalize_language_code(call[c].arg[3]) = "")) =>
      /\ call[c].openai_request = <<>>
      /\ call[c].google_request = <<>>
      /\ Done(c) => IsError(call[c].result)


\* C9: ValidateTerms never ends in an error: when the provider call fails it
\* returns the unmodified text with a reduced confidence and a fallback marker.
C9_ValidateDegrades ==
  (fn_name = "validate_medical_terms" /\ extract_medical_terms(fn_input) # <<>>) =>
    /\ ~IsError(fn_output)
    /\ "text" \in DOMAIN fn_output /\ fn_output.text = fn_input
    /\ "confidence" \in DOMAIN fn_output /\ fn_output.confidence < 100
    /\ "fallback" \in DOMAIN fn_output


\* C10: once the limit of admissions has been granted within 60 s, a
\* can_make_request call made before the wait that get_wait_time reported is
\* over returns False and admits nothing.
C10_IsCanMakeRequestCall ==
  /\ lim_ret'.op = "can_make_request"
  /\ lim_ret' # lim_ret \/ request_times' # request_times

C10_RefusedUntilWaitOver ==
  [][(C10_IsCanMakeRequestCall /\ now < wait_until) =>
       /\ ~lim_ret'.ok
       /\ admissions' = admissions
       /\ Len(request_times') <= Len(request_times)]_vars

C10_Witness ==
  /\ lim_ret.op = "can_make_request"
  /\ ~lim_ret.ok
  /\ lim_ret.at = now
  /\ now < wait_until
  /\ Len(admissions) >= AdmissionLimit
  /\ now > admissions[Len(admissions)]

\* C11: the primary provider is called through a circuit breaker: after
\* failureThreshold consecutive recorded failures no primary call is issued
\* until resetTimeout has elapsed since the last failure.  Stated for the
\* smallest configuration (failureThreshold = 1, any resetTimeout > 0): while
\* the last outcome recorded is a failure and it was recorded at this very
\* instant, no call enters the primary provider.
C11_PrimaryCallStarts(c) == call[c].pc # "openai" /\ call'[c].pc = "openai"

C11_BreakerGatesPrimary ==
  [][\A c \in Callers :
       C11_PrimaryCallStarts(c) =>
         ~(/\ ~last_success
           /\ \E d \in Callers : \E i \in DOMAIN call[d].failed_at :
                call[d].failed_at[i] = now)]_vars

\* C17: every failure of a primary call is recorded on the rate limiter
\* (update_backoff(False): the backoff doubles up to 60 s and the last outcome
\* becomes a failure) in the step that receives it, and a call reaches the
\* secondary provider only with every one of its primary failures recorded.
C17_PrimaryFailureStep(c) ==
  /\ call[c].pc = "openai"
  /\ Len(call'[c].openai_log) = Len(call[c].openai_log) + 1
  /\ Last(call'[c].openai_log) # "ok"

C17_SecondaryCallStep(c) ==
  call[c].google_request = <<>> /\ call'[c].google_request # <<>>

C18_OriginalKey(c) ==
  get_key(call[c].arg[1], NormalizeInTranslate(call[c].arg[2]),
          NormalizeInTranslate(call[c].arg[3]))

C18_CachedUnderOriginalKey ==
  [][\A c \in Callers :
       (call[c].pc # "done" /\ call'[c].pc = "done"
          /\ IsSuccess(call'[c].result) /\ ~call'[c].hit) =>
         /\ CacheHas(cache', C18_OriginalKey(c)')
         /\ CacheValue(cache', C18_OriginalKey(c)') = call'[c].result]_vars

\* C19: at most min(requests_per_minute, burst_limit) admissions fall within
\* any 60 seconds, whatever the interleaving of the callers, and every primary
\* call was admitted by its own can_make_request.
C19_Admissions ==
  {<<c, i>> : c \in Callers, i \in 1 .. (MaxRetries + 1)} \cap
    {p \in Callers \X (1 .. (MaxRetries + 1)) : p[2] <= Len(call[p[1]].admitted_at)}
C19_AdmittedAt(p) == call[p[1]].admitted_at[p[2]]

C19_WindowBounded ==
  /\ \A p \in C19_Admissions :
       Cardinality({q \in C19_Admissions :
          /\ C19_AdmittedAt(p) - Window <= C19_AdmittedAt(q)
          /\ C19_AdmittedAt(q) <= C19_AdmittedAt(p)}) <= AdmissionLimit
  /\ \A c \in Callers : PrimaryCalls(c) = Len(call[c].admitted_at)

C19_Witness ==
  /\ \E c \in Callers : call[c].pc = "sleep" /\ call[c].admitted_at = <<>>
  /\ Cardinality({q \in C19_Admissions :
        now - Window <= C19_AdmittedAt(q) /\ C19_AdmittedAt(q) <= now}) = AdmissionLimit
  /\ \E p, q \in C19_Admissions : C19_AdmittedAt(p) < C19_AdmittedAt(q)

\* C20: when the window is full and the caller waits exactly the duration
\* get_wait_time reported, with no admission in the meantime, the next
\* can_make_request returns True.
C20_CallAfterExactWait ==
  /\ lim_ret'.op = "can_make_request"
  /\ lim_ret' # lim_ret \/ request_times' # request_times
  /\ wait_until > 0
  /\ now = wait_until
  /\ \A i \in DOMAIN admissions : admissions[i] < now

C20_WaitIsEnough ==
  [][C20_CallAfterExactWait => (lim_ret'.ok /\ admissions' = Append(admissions, now))]_vars

\* C15: for a text that matches none of the term patterns the extractor
\* returns an empty sequence.
C15_NoPatternMatch(text) ==
  \A i \in DOMAIN text : PatternType(text[i]) = "none" /\ ~IsMedication(text[i])

C15_IsExtractorCall ==
  fn_name \in {"validate_medical_terms_parallel", "extract_medical_terms"}

C15_NoPatternNoTerms ==
  (C15_IsExtractorCall /\ C15_NoPatternMatch(fn_input)) => fn_output.terms = <<>>

\* C15 as amended: for such a text validate_medical_terms_parallel returns an
\* empty sequence, and extract_medical_terms returns only heuristic candidates
\* (type potential_medical_term, confidence between 0.8 and 0.9), each a
\* capitalized word longer than 3 characters with an indicator word at most
\* two words away (the word itself included), and one for every such word.
C15_NearIndicator(text, i) ==
  \E j \in DOMAIN text :
    /\ j - i <= 2 /\ i - j <= 2
    /\ \E ind \in medical_indicators : LowerWord(text[j]) = ind

C15_Candidates(text) ==
  {i \in DOMAIN text :
     FirstIsUpper(text[i]) /\ LongerThan3(text[i]) /\ C15_NearIndicator(text, i)}

C15_OnlyHeuristicCandidates ==
  (C15_IsExtractorCall /\ C15_NoPatternMatch(fn_input)) =>
    /\ fn_name = "validate_medical_terms_parallel" => fn_output.terms = <<>>
    /\ fn_name = "extract_medical_terms" =>
         /\ Len(fn_output.terms) = Cardinality(C15_Candidates(fn_input))
         /\ \A k \in DOMAIN fn_output.terms :
              /\ fn_output.terms[k].type = "potential_medical_term"
              /\ fn_output.terms[k].confidence >= 80
              /\ fn_output.terms[k].confidence <= 90
              /\ \E i \in C15_Candidates(fn_input) :
                   fn_input[i] = fn_output.terms[k].term

C15_Witness ==
  /\ fn_name = "extract_medical_terms"
  /\ C15_NoPatternMatch(fn_input)
  /\ Len(fn_output.terms) = 2
  /\ \E i \in DOMAIN fn_input : fn_input[i] = "fever"

\* C16: the confidence of an extracted term is min(1.0, base(category) + 0.1
\* if the term is fully upper-case + 0.05 if it contains a digit anywhere
\* + 0.05 if it is longer than 3 characters), with the base in [0.7, 0.95] and
\* the result in [0.7, 1.0].
C16_ContainsDigit(tok) == tok \in {"5mg", "BP:120/80", "Hgb:12"} \cup PlaceholderTokens

C16_ConfidenceFormula ==
  fn_name = "validate_medical_terms_parallel" =>
    \A k \in DOMAIN fn_output.terms :
      LET t == fn_output.terms[k] IN
      /\ TypeWeight(t.type) >= 70 /\ TypeWeight(t.type) <= 95
      /\ t.confidence >= 70 /\ t.confidence <= 100
      /\ t.confidence =
           Min(100, TypeWeight(t.type)
                    + (IF IsUpper(t.term) THEN 10 ELSE 0)
                    + (IF C16_ContainsDigit(t.term) THEN 5 ELSE 0)
                    + (IF LongerThan3(t.term) THEN 5 ELSE 0))

\* C12: a set of a new key into a full cache removes exactly the least
\* recently used entry and keeps every other entry, and a get that hits makes
\* its entry the most recently used.  The entry removed is accepted when it is
\* the least recently used under either way of counting the uses.
C12_SetOfNewKeyWhenFull(key, value) ==
  /\ CacheSet(key, value)
  /\ ~CacheHas(cache, key)
  /\ Len(cache) >= CacheMaxSize

C12_StrictLRU ==
  [][/\ \A key \in CacheKeys, value \in CacheValues :
          C12_SetOfNewKeyWhenFull(key, value) =>
            \E lru \in {use_order.first[1], use_order.every[1]} :
              /\ CacheKeySet(cache') = (CacheKeySet(cache) \ {lru}) \cup {key}
              /\ \A k \in CacheKeySet(cache) \ {lru} :
                   CacheValue(cache', k) = CacheValue(cache, k)
     /\ \A key \in CacheKeys :
          (CacheGet(key) /\ CacheHas(cache, key)) =>
            /\ cache'[Len(cache')].key = key
            /\ CacheKeySet(cache') = CacheKeySet(cache)]_vars

\* C13: a batch is handed to the processing function only when it holds at
\* least batch_size requests or batch_timeout has passed since its first
\* request joined it.
C13_DispatchStep ==
  proc.pc = "wait" /\ current_batch # <<>> /\ current_batch' = <<>>

C13_DispatchOnlyWhenDue ==
  [][C13_DispatchStep =>
       \/ Len(current_batch) >= BatchSize
       \/ now - batch_requests[current_batch[1]].joined_at >= BatchTimeout]_vars

\* C14: every request of a batch that was processed has its future resolved
\* exactly once, with the result or error computed for that very request; the
\* result of a translated request is the one of its own text whatever
\* happened to the other requests of the batch.
C14_In(seq, id) == \E k \in DOMAIN seq : seq[k] = id

C14_ResolvedWithOwnResult ==
  \A id \in DOMAIN batch_requests :
    LET r == batch_requests[id] IN
    /\ r.resolved <= 1
    /\ (r.resolved = 1) <=> ~IsPending(r.result)
    /\ (~C14_In(current_batch, id) /\ ~C14_In(proc.batch, id)) => r.resolved = 1
    /\ r.resolved = 1 =>
         /\ r.result = r.computed
         /\ ~IsError(r.result) =>
              /\ r.result.medical_terms = validate_medical_terms_parallel(r.text)
              /\ r.result.source_lang = r.source_lang
              /\ r.result.target_lang = r.target_lang

C14_Witness ==
  \E a, b \in DOMAIN batch_requests :
    /\ a < b
    /\ batch_requests[a].joined_at = batch_requests[b].joined_at
    /\ batch_requests[a].resolved = 1 /\ batch_requests[b].resolved = 1
    /\ IsError(batch_requests[a].result)
    /\ ~IsError(batch_requests[b].result)
    /\ batch_requests[b].result.medical_terms # <<>>

\* C21: the backoff starts at 1 s and every update_backoff call follows the
\* law: a failure doubles it up to 60 s, a success right after a failure halves
\* it down to 1 s, a success after a success leaves it alone; so it stays
\* between 1 s and 60 s (8 and 480 eighths of a second).
C21_BackoffLaw ==
  /\ backoff_time = 8
  /\ [][\A success \in BOOLEAN :
          UpdateBackoff(success) =>
            /\ backoff_time' >= 8 /\ backoff_time' <= 480
            /\ ~success =>
                 backoff_time' = (IF 2 * backoff_time > 480 THEN 480 ELSE 2 * backoff_time)
            /\ (success /\ ~last_success) =>
                 \/ 2 * backoff_time' = backoff_time
                 \/ backoff_time' = 8 /\ backoff_time <= 16
            /\ (success /\ last_success) => backoff_time' = backoff_time]_vars

\* the cap was reached and the next success halved it
C21_Witness ==
  /\ lim_ret.op = "update_backoff"
  /\ backoff_time = 240
  /\ last_success

\* C22: when a primary call fails and is retried, the coroutine sleeps for
\* the limiter's backoff as the failure just recorded left it (the backoff is
\* in eighths of a second, the sleep in seconds).
C22_RetryStep(c) == call[c].pc = "openai" /\ call'[c].pc = "sleep"

C22_RetryDelayIsBackoff ==
  [][\A c \in Callers :
       C22_RetryStep(c) => 8 * (call'[c].wake_at - now) = backoff_time']_vars

\* C23: one translate_text call sends at most three requests to the primary
\* provider and at most one to the secondary, and the secondary is called only
\* when the primary attempts are over and the last one failed: it was a quota
\* error or the third failure.  Nothing is sent to the primary afterwards.
C23_SecondaryCallStep(c) == call[c].google_request # call'[c].google_request

C23_AttemptsBounded ==
  [][\A c \in Callers :
       LET log == call'[c].openai_log IN
       /\ Len(log) <= 3
       /\ C23_SecondaryCallStep(c) =>
            /\ call[c].google_request = <<>>
            /\ call'[c].pc = "done"
            /\ log # <<>>
            /\ log[Len(log)] # "ok"
            /\ log[Len(log)] = "insufficient_quota" \/ Len(log) = 3
       /\ call[c].google_request # <<>> => log = call[c].openai_log]_vars

\* a caller went through three failed primary calls, the last of them not a
\* quota error, and then the fallback, which failed too
C23_Witness ==
  \E c \in Callers :
    /\ call[c].pc = "done"
    /\ call[c].openai_log = <<"timeout", "timeout", "timeout">>
    /\ call[c].google_request # <<>>
    /\ call[c].google_outcome \in GoogleErrors

\* C24: a call the limiter has refused max_retries times has left the loop
\* of openai_translate and gone to the secondary provider: it is not waiting
\* for admission any more.
C24_RefusalsEndInFallback ==
  \A c \in Callers :
    call[c].refused >= MaxRetries =>
      /\ call[c].pc = "done"
      /\ call[c].google_request # <<>>

\* C25: with no primary client (init_openai left client = None) a
\* translate_text call goes to the secondary provider, and when the secondary
\* answers, the call returns that answer, not an error.
C25_NoClientFallsBack ==
  \A c \in Callers :
    (~client /\ call[c].pc = "done") =>
      /\ call[c].google_request # <<>>
      /\ call[c].google_outcome = "ok" => IsSuccess(call[c].result)

\* C26: every request add_request was called with is in the end answered:
\* its batch is taken, its future is resolved and the polling loop of its
\* caller returns the result, also when the batch never fills.
C26_EveryRequestAnswered ==
  \A id \in 1 .. MaxBatchRequests :
    (id \in DOMAIN batch_requests) ~>
      (/\ id \in DOMAIN batch_requests
       /\ batch_requests[id].returned
       /\ batch_requests[id].resolved = 1)

\* the only request there ever was, fewer than batch_size, has been answered
\* after the time at which requests can arrive
C26_Witness ==
  /\ Len(batch_requests) = 1
  /\ Len(batch_requests) < BatchSize
  /\ now > BatcherMaxTime
  /\ batch_requests[1].returned
  /\ ~IsPending(batch_requests[1].result)

\* C27: one batch at most is being processed: the batch handed to the
\* processing function stays as it is until its results are delivered, a
\* request that arrives meanwhile joins the open batch and not the one in
\* flight, and every request is in the open batch, in the batch in flight or
\* resolved, and in one of the three only.
C27_Arrival == Len(batch_requests') = Len(batch_requests) + 1

C27_Places(reqs, open, inflight, id) ==
  (IF C14_In(open, id) THEN 1 ELSE 0) + (IF C14_In(inflight, id) THEN 1 ELSE 0)
    + (IF reqs[id].resolved >= 1 THEN 1 ELSE 0)

C27_OneBatchInFlight ==
  [][/\ (proc.batch # <<>> /\ proc'.batch # proc.batch) =>
          /\ proc'.batch = <<>>
          /\ \A k \in DOMAIN proc.batch : batch_requests'[proc.batch[k]].resolved = 1
     /\ C27_Arrival =>
          /\ proc'.batch = proc.batch
          /\ current_batch' = Append(current_batch, Len(batch_requests'))
     /\ \A id \in DOMAIN batch_requests' :
          C27_Places(batch_requests', current_batch', proc'.batch, id) = 1]_vars

\* a request has joined the open batch while another batch is being processed
C27_Witness ==
  /\ proc.pc = "openai"
  /\ proc.batch # <<>>
  /\ \E k \in DOMAIN current_batch :
       /\ \A j \in DOMAIN proc.batch : current_batch[k] > proc.batch[j]
       /\ batch_requests[current_batch[k]].resolved = 0

\* C28: a batch handed to the processing function holds at most batch_size
\* requests.
C28_HandOver == proc.pc = "wait" /\ batch_event /\ current_batch # <<>> /\ current_batch' = <<>>

C28_BatchSizeBounded ==
  [][C28_HandOver => Len(current_batch) <= BatchSize]_vars

\* C29: whatever gets and sets were made, the cache holds at most max_size
\* entries and no two of them have the same key.
C29_BoundedNoDuplicate ==
  /\ Len(cache) <= CacheMaxSize
  /\ \A i, j \in DOMAIN cache : cache[i].key = cache[j].key => i = j

\* a full cache on which a get has just missed
C29_Witness ==
  /\ Len(cache) = CacheMaxSize
  /\ cache_ret.op = "get"
  /\ cache_ret.value = <<>>

\* C30: protecting the terms of a text and restoring them in the unchanged
\* answer of the provider gives back the text, in translate_text and in
\* process_translation_batch.
C30_RoundTrip ==
  fn_name = "protect_and_restore" =>
    /\ fn_output.text = fn_input
    /\ fn_output.batch_text = fn_input

\* C31: two translate_text calls with the same text whose language codes
\* normalize_language_code maps to the same codes have the same cache
\* identity: when the first has returned a translation before the second
\* starts, the second is answered from the cache.
C31_SameIdentity(c, d) ==
  /\ call[c].arg[1] = call[d].arg[1]
  /\ normalize_language_code(call[c].arg[2]) # ""
  /\ normalize_language_code(call[c].arg[3]) # ""
  /\ normalize_language_code(call[c].arg[2]) = normalize_language_code(call[d].arg[2])
  /\ normalize_language_code(call[c].arg[3]) = normalize_language_code(call[d].arg[3])

C31_VariantsShareCacheEntry ==
  \A c, d \in Callers :
    (/\ call[c].pc = "done" /\ call[d].pc = "done"
     /\ c \in call[d].started_after
     /\ IsSuccess(call[c].result)
     /\ C31_SameIdentity(c, d)) => call[d].hit

\* C32: expand_medical_abbreviation is a lookup in MEDICAL_ABBREVIATIONS: a
\* key gives the value the table holds for it, anything else is returned as
\* it is, and equal arguments give equal values.
C32_PureLookup ==
  \A k \in DOMAIN fn_input :
    LET abbr == fn_input[k]
        value == fn_output.values[k] IN
    /\ abbr \in AbbreviationKeys => value = MEDICAL_ABBREVIATIONS(abbr)
    /\ abbr \notin AbbreviationKeys => value = abbr
    /\ \A j \in DOMAIN fn_input : fn_input[j] = abbr => fn_output.values[j] = value

\* C33: a translate_text call that ends in an error leaves the cache as it
\* was: the cache changes only in a step in which a call returns a
\* translation or is answered from the cache, and no entry of it is an error.
C33_ReturnsTranslation(c) ==
  call[c].pc # "done" /\ call'[c].pc = "done" /\ IsSuccess(call'[c].result)

C33_ErrorLeavesCache ==
  [][/\ cache' # cache => \E c \in Callers : C33_ReturnsTranslation(c)
     /\ \A c \in Callers :
          (call[c].pc # "done" /\ call'[c].pc = "done" /\ IsError(call'[c].result)) =>
            cache' = cache
     /\ \A i \in DOMAIN cache' : IsSuccess(cache'[i].value)]_vars

\* a call ended with both providers failed after another call's translation
\* was cached, and the entry is still there
C33_Witness ==
  \E c, d \in Callers :
    /\ call[c].pc = "done" /\ call[d].pc = "done"
    /\ d \in call[c].started_after
    /\ IsSuccess(call[d].result)
    /\ IsError(call[c].result)
    /\ call[c].google_outcome \in GoogleErrors
    /\ Len(cache) = 1

\* C34: the metrics of the limiter agree with admission: at any moment
\* get_metrics reports requests remaining exactly when can_make_request,
\* called at the same moment, would admit, and never a negative number.
C34_MetricsAgreeWithAdmission ==
  (lim_ret.op = "get_metrics" /\ lim_ret.at = now) =>
    LET remaining == lim_ret.metrics.rate_limit_remaining IN
    /\ remaining >= 0
    /\ remaining > 0 <=> can_make_request(request_times, now).ok

\* C35: a set on a key the cache already holds replaces that key's value and
\* removes no other entry, the cache at full capacity included.
C35_SetPresentKeepsOthers ==
  [][\A key \in CacheKeys, value \in CacheValues :
       (CacheHas(cache, key) /\ CacheSet(key, value)) =>
         /\ CacheKeySet(cache') = CacheKeySet(cache)
         /\ CacheValue(cache', key) = value
         /\ \A other \in CacheKeySet(cache) \ {key} :
              CacheValue(cache', other) = CacheValue(cache, other)]_vars

====
